---------------------------- MODULE Spec2Model ----------------------------
(***************************************************************************)
(* A model of janus-conference-logger: the Janus logger plugin that turns  *)
(* raw log lines into single-line JSON records.                            *)
(*                                                                         *)
(*   src/src/lib.rs           Message (timestamp, level, tag grammar),     *)
(*                            JsonMessage (serialisation),                 *)
(*                            JanusConferenceLogger (channel + worker)     *)
(*   src/src/janus_logger.rs  define_logger! (the extern "C" entry points  *)
(*                            and the LOGGER set-once slot)                *)
(*                                                                         *)
(* Text is modelled at character level: a Rust &str is a sequence of       *)
(* one-character strings.  A usize is represented by its canonical decimal *)
(* numeral (a digit sequence without leading zeros), so that values up to  *)
(* usize::MAX and the parse overflow are representable.                    *)
(***************************************************************************)
EXTENDS Integers, Sequences, FiniteSets, TLC

(***************************************************************************)
(* Characters and string helpers                                           *)
(***************************************************************************)

\* ASCII decimal digits, the only ones str::parse::<usize> accepts.
AsciiDigit == {"0", "1", "2", "3", "4", "5", "6", "7", "8", "9"}

\* One representative of the non-ASCII decimal digits (Unicode class Nd,
\* here ARABIC-INDIC DIGIT THREE) that the regex class \d also matches.
ArabicIndicThree == "U+0663"

\* The regex crate's \d is Unicode aware: class Nd.
RegexDigit == AsciiDigit \cup {ArabicIndicThree}

\* str::trim removes Unicode White_Space; these are the ones the modelled
\* lines use.
WhiteSpace == {" ", "\t", "\n"}

\* A byte sequence that is not valid UTF-8, as one element of a C string.
InvalidUtf8 == "0xFF"

DigitVal(c) ==
    CASE c = "0" -> 0 [] c = "1" -> 1 [] c = "2" -> 2 [] c = "3" -> 3
      [] c = "4" -> 4 [] c = "5" -> 5 [] c = "6" -> 6 [] c = "7" -> 7
      [] c = "8" -> 8 [] c = "9" -> 9

\* s[from..] (1-based), empty when from is past the end.
Drop(s, n) == SubSeq(s, n + 1, Len(s))

Take(s, n) == SubSeq(s, 1, n)

StartsWith(s, p) == Len(s) >= Len(p) /\ Take(s, Len(p)) = p

\* The text at position i (1-based) of s is p.
MatchesAt(s, i, p) ==
    /\ i >= 1
    /\ i + Len(p) - 1 <= Len(s)
    /\ SubSeq(s, i, i + Len(p) - 1) = p

\* Option<&str> of str::strip_prefix.
StripPrefix(s, p) ==
    IF StartsWith(s, p)
    THEN [some |-> TRUE, rest |-> Drop(s, Len(p))]
    ELSE [some |-> FALSE, rest |-> <<>>]

RECURSIVE TrimStart(_)
TrimStart(s) ==
    IF s # <<>> /\ Head(s) \in WhiteSpace THEN TrimStart(Tail(s)) ELSE s

RECURSIVE TrimEnd(_)
TrimEnd(s) ==
    IF s # <<>> /\ s[Len(s)] \in WhiteSpace
    THEN TrimEnd(Take(s, Len(s) - 1))
    ELSE s

\* A trim of the start only (str::trim_start).  C16 must tell it from Trim.
TrimStartOnly(s) == TrimStart(s)

\* str::trim
Trim(s) == TrimEnd(TrimStart(s))

(***************************************************************************)
(* Message::timestamp (lib.rs 94-98)                                       *)
(*                                                                         *)
(* TLC's integers are 32 bits wide, so the modelled i64 timestamps lie in  *)
(* -2^31 .. 2^31-1 microseconds; a u32 is kept as two 16-bit halves.       *)
(***************************************************************************)

\* Rust's i64 `/`: the quotient truncated toward zero.
TruncDiv(a, b) == IF a >= 0 THEN a \div b ELSE -((-a) \div b)

\* Rust's i64 `%`: the remainder has the sign of the dividend.
TruncRem(a, b) == a - b * TruncDiv(a, b)

\* `n as u32` for an i64 n with |n| < 2^31: n mod 2^32, as [hi, lo] with
\* value hi * 65536 + lo.
AsU32(n) ==
    IF n >= 0
    THEN [hi |-> n \div 65536, lo |-> n % 65536]
    ELSE LET m == (2147483647 + n) + 1     \* 2^31 + n, in 0 .. 2^31-1
         IN  [hi |-> 32768 + (m \div 65536), lo |-> m % 65536]

U32Less(a, b) == a.hi < b.hi \/ (a.hi = b.hi /\ a.lo < b.lo)

\* The number a u32 stands for, when it is below 2^31.
U32Value(a) == a.hi * 65536 + a.lo

\* chrono NaiveTime::from_num_seconds_from_midnight_opt accepts a
\* nanosecond field below 2_000_000_000 (the second billion is the leap
\* second representation); 2_000_000_000 = 30517 * 65536 + 37888.
ValidNanos(ns) == U32Less(ns, [hi |-> 30517, lo |-> 37888])

\* NaiveDateTime::from_timestamp(secs, nsecs) panics when
\* from_timestamp_opt is None.  Every modelled secs is within chrono's
\* range of dates, so the nanosecond field decides.
FromTimestampPanics(secs, ns) == ~ValidNanos(ns)

\* Message::timestamp: [panic, secs, nsecs].
Timestamp(ts) ==
    LET secs  == TruncDiv(ts, 1000000)
        nsecs == TruncRem(ts, 1000000) * 1000
        ns32  == AsU32(nsecs)
    IN  [panic |-> FromTimestampPanics(secs, ns32), secs |-> secs, nsecs |-> ns32]

(***************************************************************************)
(* Message::extract_level (lib.rs 100-111)                                 *)
(***************************************************************************)

ERR_PREFIX == <<"[", "E", "R", "R", "]", " ">>

WARN_PREFIX == <<"[", "W", "A", "R", "N", "]", " ">>

\* A level extraction that takes every marker that begins with "[ERR" for
\* the error prefix.  C13 must tell it from ExtractLevel.
ExtractLevelLoose(line) ==
    IF StartsWith(line, <<"[", "E", "R", "R">>)
    THEN [level |-> "ERRO", rest |-> Drop(line, Len(ERR_PREFIX))]
    ELSE IF StripPrefix(line, WARN_PREFIX).some
    THEN [level |-> "WARN", rest |-> StripPrefix(line, WARN_PREFIX).rest]
    ELSE [level |-> "INFO", rest |-> line]

ExtractLevel(line) ==
    IF StripPrefix(line, ERR_PREFIX).some
    THEN [level |-> "ERRO", rest |-> StripPrefix(line, ERR_PREFIX).rest]
    ELSE IF StripPrefix(line, WARN_PREFIX).some
    THEN [level |-> "WARN", rest |-> StripPrefix(line, WARN_PREFIX).rest]
    ELSE [level |-> "INFO", rest |-> line]

(***************************************************************************)
(* Option and Result                                                       *)
(***************************************************************************)

None == [some |-> FALSE, v |-> <<>>]

Some(x) == [some |-> TRUE, v |-> x]

(***************************************************************************)
(* str::parse::<usize> and format!("{}", usize)                            *)
(***************************************************************************)

\* usize::MAX on a 64-bit target: 2^64 - 1.
USIZE_MAX == 
    <<"1", "8", "4", "4", "6", "7", "4", "4", "0", "7", "3", "7", "0", "9", "5", "5", "1", "6", "1", "5">>

RECURSIVE StripZeros(_)
StripZeros(d) ==
    IF Len(d) > 1 /\ Head(d) = "0" THEN StripZeros(Tail(d)) ELSE d

\* a < b for digit sequences of the same length.
RECURSIVE NumeralLess(_, _)
NumeralLess(a, b) ==
    IF a = <<>> THEN FALSE
    ELSE IF DigitVal(Head(a)) # DigitVal(Head(b))
    THEN DigitVal(Head(a)) < DigitVal(Head(b))
    ELSE NumeralLess(Tail(a), Tail(b))

\* The value of the canonical numeral d fits a usize.
FitsUsize(d) ==
    \/ Len(d) < Len(USIZE_MAX)
    \/ Len(d) = Len(USIZE_MAX) /\ ~NumeralLess(USIZE_MAX, d)

\* str::parse::<usize> on a text the regex class \d+ captured: Ok(n) when
\* every character is an ASCII digit and the value fits, n being the
\* canonical numeral of the value.
ParseUsize(s) ==
    IF s # <<>> /\ (\A i \in 1..Len(s) : s[i] \in AsciiDigit)
       /\ FitsUsize(StripZeros(s))
    THEN [ok |-> TRUE, v |-> StripZeros(s)]
    ELSE [ok |-> FALSE, v |-> <<>>]

\* format!("[{}] ", handle_id)
FormatHandlePrefix(n) == <<"[">> \o n \o <<"]", " ">>

(***************************************************************************)
(* CORE_HANDLE_ID_REGEX and Message::extract_core_tags (lib.rs 19-20,      *)
(* 135-154)                                                                *)
(***************************************************************************)

\* The character at position i, "" past either end.
CharAt(s, i) == IF i >= 1 /\ i <= Len(s) THEN s[i] ELSE ""

\* The length of the longest run of \d characters of s from position i.
RECURSIVE DigitRun(_, _)
DigitRun(s, i) ==
    IF CharAt(s, i) \in RegexDigit THEN 1 + DigitRun(s, i + 1) ELSE 0

\* Regex \A\[(\d+)\] : captures of the match at the start of the line.
\* Group 1 is the greedy digit run, which must be followed by "]".
CoreHandleIdCaptures(line) ==
    LET n == DigitRun(line, 2)
    IN  IF CharAt(line, 1) = "[" /\ n >= 1 /\ CharAt(line, n + 2) = "]"
        THEN [matched |-> TRUE, group1 |-> Some(SubSeq(line, 2, n + 1))]
        ELSE [matched |-> FALSE, group1 |-> None]

FAILED_TO_PARSE_HANDLE_ID == <<"F", "a", "i", "l", "e", "d", " ", "t", "o", " ", "p", "a", "r", "s", "e", " ", "h", "a", "n", "d", "l", "e", " ", "i", "d">>

FAILED_TO_GET_HANDLE_ID == <<"F", "a", "i", "l", "e", "d", " ", "t", "o", " ", "g", "e", "t", " ", "h", "a", "n", "d", "l", "e", " ", "i", "d">>

\* An extract_core_tags that strips the bracketed text as it was matched,
\* not the prefix rebuilt from the parsed integer.  C10 must tell it from
\* ExtractCoreTags.
ExtractCoreTagsAsMatched(line) ==
    LET captures == CoreHandleIdCaptures(line)
        parsed   == ParseUsize(captures.group1.v)
        prefix   == FormatHandlePrefix(captures.group1.v)
    IN  IF ~captures.matched
        THEN [ok |-> TRUE, tags |-> [handle_id |-> None], rest |-> line, err |-> <<>>]
        ELSE IF ~parsed.ok
        THEN [ok |-> FALSE, tags |-> [handle_id |-> None], rest |-> <<>>,
              err |-> FAILED_TO_PARSE_HANDLE_ID]
        ELSE [ok |-> TRUE,
              tags |-> [handle_id |-> Some(parsed.v)],
              rest |-> IF StripPrefix(line, prefix).some
                       THEN StripPrefix(line, prefix).rest
                       ELSE line,
              err |-> <<>>]

\* Result<(CoreTags, &str), String>: [ok, tags, rest, err].
ExtractCoreTags(line) ==
    LET captures == CoreHandleIdCaptures(line)
        parsed   == ParseUsize(captures.group1.v)
        prefix   == FormatHandlePrefix(parsed.v)
    IN  IF ~captures.matched
        THEN [ok |-> TRUE, tags |-> [handle_id |-> None], rest |-> line, err |-> <<>>]
        ELSE IF ~captures.group1.some
        THEN [ok |-> FALSE, tags |-> [handle_id |-> None], rest |-> <<>>,
              err |-> FAILED_TO_GET_HANDLE_ID]
        ELSE IF ~parsed.ok
        THEN [ok |-> FALSE, tags |-> [handle_id |-> None], rest |-> <<>>,
              err |-> FAILED_TO_PARSE_HANDLE_ID]
        ELSE [ok |-> TRUE,
              tags |-> [handle_id |-> Some(parsed.v)],
              rest |-> IF StripPrefix(line, prefix).some
                       THEN StripPrefix(line, prefix).rest
                       ELSE line,
              err |-> <<>>]

(***************************************************************************)
(* CONFERENCE_REGEX (lib.rs 21-22):  \A\[CONFERENCE (\{.*\})\] (.+)        *)
(***************************************************************************)

CONFERENCE_OPEN == <<"[", "C", "O", "N", "F", "E", "R", "E", "N", "C", "E", " ", "{">>

CONFERENCE_CLOSE == <<"}", "]", " ">>

\* `.` matches every character but the line feed.
NoLineFeed(s, i, j) == \A k \in i..j : s[k] # "\n"

\* The positions j of a "}] " that can close group 1: the text from the
\* opening brace up to it has no line feed, and at least one character
\* that `.+` matches follows.
ConferenceCloseAt(line) ==
    { j \in (Len(CONFERENCE_OPEN) + 1)..Len(line) :
        /\ MatchesAt(line, j, CONFERENCE_CLOSE)
        /\ NoLineFeed(line, Len(CONFERENCE_OPEN) + 1, j - 1)
        /\ CharAt(line, j + Len(CONFERENCE_CLOSE)) \notin {"", "\n"} }

Max(S) == CHOOSE x \in S : \A y \in S : y <= x

\* The last position e >= i such that s[i..e] has no line feed (the greedy
\* `.+` from i, which is known to match at i).
RECURSIVE DotPlusEnd(_, _)
DotPlusEnd(s, i) ==
    IF CharAt(s, i + 1) \notin {"", "\n"} THEN DotPlusEnd(s, i + 1) ELSE i

\* Captures of the match at the start of the line: `.*` is greedy, so
\* group 1 runs to the last "}] " that lets the rest of the pattern match.
ConferenceCaptures(line) ==
    IF StartsWith(line, CONFERENCE_OPEN) /\ ConferenceCloseAt(line) # {}
    THEN LET j == Max(ConferenceCloseAt(line))
             r == j + Len(CONFERENCE_CLOSE)
         IN  [matched |-> TRUE,
              group1 |-> Some(SubSeq(line, Len(CONFERENCE_OPEN), j)),
              group2 |-> Some(SubSeq(line, r, DotPlusEnd(line, r)))]
    ELSE [matched |-> FALSE, group1 |-> None, group2 |-> None]

(***************************************************************************)
(* serde_json::from_str::<ConferenceTags> (lib.rs 48-58, 120)              *)
(*                                                                         *)
(* A JSON reader over the characters of the modelled lines: objects,       *)
(* arrays, strings, integers, null, true and false.  The modelled lines    *)
(* hold no backslash, fraction or exponent, so string escapes and floating *)
(* point numbers are not read.  A position 0 stands for a syntax error.    *)
(***************************************************************************)

JsonSpace == {" ", "\t", "\n", "\r"}

RECURSIVE SkipWs(_, _)
SkipWs(s, i) == IF CharAt(s, i) \in JsonSpace THEN SkipWs(s, i + 1) ELSE i

\* The position of the quote that closes a string whose text starts at i,
\* 0 when the string is not closed or holds a control character.
RECURSIVE StringEnd(_, _)
StringEnd(s, i) ==
    IF CharAt(s, i) = "\"" THEN i
    ELSE IF CharAt(s, i) \in {"", "\n", "\t", "\r"} THEN 0
    ELSE StringEnd(s, i + 1)

\* A string at i: [ok, next, v].
ReadString(s, i) ==
    IF CharAt(s, i) = "\"" /\ StringEnd(s, i + 1) # 0
    THEN [ok |-> TRUE, next |-> StringEnd(s, i + 1) + 1,
          v |-> SubSeq(s, i + 1, StringEnd(s, i + 1) - 1)]
    ELSE [ok |-> FALSE, next |-> 0, v |-> <<>>]

RECURSIVE AsciiDigitRun(_, _)
AsciiDigitRun(s, i) ==
    IF CharAt(s, i) \in AsciiDigit THEN 1 + AsciiDigitRun(s, i + 1) ELSE 0

\* An integer at i: [ok, next, neg, v].  JSON allows no leading zero.
ReadInteger(s, i) ==
    LET neg == CharAt(s, i) = "-"
        d   == IF neg THEN i + 1 ELSE i
        n   == AsciiDigitRun(s, d)
    IN  IF n >= 1 /\ (n = 1 \/ CharAt(s, d) # "0")
        THEN [ok |-> TRUE, next |-> d + n, neg |-> neg, v |-> SubSeq(s, d, d + n - 1)]
        ELSE [ok |-> FALSE, next |-> 0, neg |-> neg, v |-> <<>>]

JSON_NULL == <<"n", "u", "l", "l">>

JSON_TRUE == <<"t", "r", "u", "e">>

JSON_FALSE == <<"f", "a", "l", "s", "e">>

\* serde's IgnoredAny: the position after the value at i, 0 on an error.
RECURSIVE SkipValue(_, _)
RECURSIVE SkipMembers(_, _)
RECURSIVE SkipElements(_, _)
SkipValue(s, i) ==
    LET c == CharAt(s, i)
    IN  IF c = "\"" THEN ReadString(s, i).next
        ELSE IF c = "{"
        THEN IF CharAt(s, SkipWs(s, i + 1)) = "}"
             THEN SkipWs(s, i + 1) + 1
             ELSE SkipMembers(s, SkipWs(s, i + 1))
        ELSE IF c = "["
        THEN IF CharAt(s, SkipWs(s, i + 1)) = "]"
             THEN SkipWs(s, i + 1) + 1
             ELSE SkipElements(s, SkipWs(s, i + 1))
        ELSE IF c = "-" \/ c \in AsciiDigit THEN ReadInteger(s, i).next
        ELSE IF MatchesAt(s, i, JSON_NULL) THEN i + Len(JSON_NULL)
        ELSE IF MatchesAt(s, i, JSON_TRUE) THEN i + Len(JSON_TRUE)
        ELSE IF MatchesAt(s, i, JSON_FALSE) THEN i + Len(JSON_FALSE)
        ELSE 0

\* The members of an object from the key at i, to after its "}".
SkipMembers(s, i) ==
    LET k == ReadString(s, i)
        c == SkipWs(s, k.next)
        v == SkipValue(s, SkipWs(s, c + 1))
        d == SkipWs(s, v)
    IN  IF ~k.ok \/ CharAt(s, c) # ":" THEN 0
        ELSE IF v = 0 THEN 0
        ELSE IF CharAt(s, d) = "," THEN SkipMembers(s, SkipWs(s, d + 1))
        ELSE IF CharAt(s, d) = "}" THEN d + 1
        ELSE 0

\* The elements of an array from the value at i, to after its "]".
SkipElements(s, i) ==
    LET v == SkipValue(s, i)
        d == SkipWs(s, v)
    IN  IF v = 0 THEN 0
        ELSE IF CharAt(s, d) = "," THEN SkipElements(s, SkipWs(s, d + 1))
        ELSE IF CharAt(s, d) = "]" THEN d + 1
        ELSE 0

\* Option<usize> at i: [ok, next, v]: null, or an integer that fits.
ReadOptionUsize(s, i) ==
    LET n == ReadInteger(s, i)
    IN  IF MatchesAt(s, i, JSON_NULL)
        THEN [ok |-> TRUE, next |-> i + Len(JSON_NULL), v |-> None]
        ELSE IF n.ok /\ ~n.neg /\ FitsUsize(n.v)
        THEN [ok |-> TRUE, next |-> n.next, v |-> Some(n.v)]
        ELSE [ok |-> FALSE, next |-> 0, v |-> None]

\* Option<String> at i: [ok, next, v]: null, or a string.
ReadOptionString(s, i) ==
    LET t == ReadString(s, i)
    IN  IF MatchesAt(s, i, JSON_NULL)
        THEN [ok |-> TRUE, next |-> i + Len(JSON_NULL), v |-> None]
        ELSE IF t.ok
        THEN [ok |-> TRUE, next |-> t.next, v |-> Some(t.v)]
        ELSE [ok |-> FALSE, next |-> 0, v |-> None]

HANDLE_ID == <<"h", "a", "n", "d", "l", "e", "_", "i", "d">>

RTC_ID == <<"r", "t", "c", "_", "i", "d">>

AGENT_ID == <<"a", "g", "e", "n", "t", "_", "i", "d">>

TRANSACTION == <<"t", "r", "a", "n", "s", "a", "c", "t", "i", "o", "n">>

\* The field of ConferenceTags a JSON key names, "" for an unknown key.
TagField(key) ==
    IF key = HANDLE_ID THEN "handle_id"
    ELSE IF key = RTC_ID THEN "rtc_id"
    ELSE IF key = AGENT_ID THEN "agent_id"
    ELSE IF key = TRANSACTION THEN "transaction"
    ELSE ""

\* ConferenceTags::default()
DefaultConferenceTags ==
    [handle_id |-> None, rtc_id |-> None, agent_id |-> None, transaction |-> None]

TagsError == [ok |-> FALSE, next |-> 0, tags |-> DefaultConferenceTags]

\* The value of the field f at p, by the field's type; an unknown key's
\* value is skipped.  [ok, next, v].
ReadTagValue(s, p, f) ==
    IF f = "handle_id" THEN ReadOptionUsize(s, p)
    ELSE IF f = "" THEN [ok |-> SkipValue(s, p) # 0, next |-> SkipValue(s, p), v |-> None]
    ELSE ReadOptionString(s, p)

PutTag(tags, f, v) == IF f = "" THEN tags ELSE [tags EXCEPT ![f] = v]

\* The derived Deserialize of ConferenceTags, from the key at i: known
\* fields are read with their type, a repeated field is an error, unknown
\* keys are skipped.  [ok, next, tags].
RECURSIVE ReadTagMembers(_, _, _, _)
\* After the value r of field f: a comma and the next member, or the
\* closing brace.
AfterTagValue(s, f, r, tags, seen) ==
    IF ~r.ok THEN TagsError
    ELSE IF CharAt(s, SkipWs(s, r.next)) = ","
    THEN ReadTagMembers(s, SkipWs(s, SkipWs(s, r.next) + 1), PutTag(tags, f, r.v),
                        seen \cup ({f} \ {""}))
    ELSE IF CharAt(s, SkipWs(s, r.next)) = "}"
    THEN [ok |-> TRUE, next |-> SkipWs(s, r.next) + 1, tags |-> PutTag(tags, f, r.v)]
    ELSE TagsError

\* After the key k: the colon and the value.
AfterTagKey(s, k, tags, seen) ==
    IF ~k.ok \/ CharAt(s, SkipWs(s, k.next)) # ":" THEN TagsError
    ELSE IF TagField(k.v) \in seen THEN TagsError
    ELSE AfterTagValue(s, TagField(k.v),
                       ReadTagValue(s, SkipWs(s, SkipWs(s, k.next) + 1), TagField(k.v)),
                       tags, seen)

ReadTagMembers(s, i, tags, seen) == AfterTagKey(s, ReadString(s, i), tags, seen)

\* The Display of a serde_json::Error, as one element.
SERDE_ERROR == <<"<serde_json::Error>">>

\* serde_json::from_str::<ConferenceTags>: [ok, tags].  The whole text must
\* be one object (the regex makes it start with a brace).
FromStrConferenceTags(s) ==
    LET i == SkipWs(s, 1)
        k == SkipWs(s, i + 1)
        r == IF CharAt(s, i) # "{" THEN TagsError
             ELSE IF CharAt(s, k) = "}"
             THEN [ok |-> TRUE, next |-> k + 1, tags |-> DefaultConferenceTags]
             ELSE ReadTagMembers(s, k, DefaultConferenceTags, {})
    IN  IF r.ok /\ SkipWs(s, r.next) = Len(s) + 1
        THEN [ok |-> TRUE, tags |-> r.tags]
        ELSE [ok |-> FALSE, tags |-> DefaultConferenceTags]

(***************************************************************************)
(* DateTime::with_timezone(&Local).to_rfc3339() (lib.rs 75)                *)
(***************************************************************************)

DigitChars == <<"0", "1", "2", "3", "4", "5", "6", "7", "8", "9">>

\* The decimal numeral of n >= 0, zero padded to at least w digits.
RECURSIVE Pad(_, _)
Pad(n, w) ==
    IF n < 10 /\ w <= 1 THEN <<DigitChars[n + 1]>>
    ELSE Pad(n \div 10, w - 1) \o <<DigitChars[(n % 10) + 1]>>

\* The offset of the process's local time zone from UTC, in seconds: the
\* modelled process runs in UTC.
LocalOffsetSecs == 0

\* The proleptic Gregorian date of a day count from 1970-01-01.
CivilFromDays(days) ==
    LET z   == days + 719468
        era == z \div 146097
        doe == z - era * 146097
        yoe == (doe - doe \div 1460 + doe \div 36524 - doe \div 146096) \div 365
        doy == doe - (365 * yoe + yoe \div 4 - yoe \div 100)
        mp  == (5 * doy + 2) \div 153
        d   == doy - (153 * mp + 2) \div 5 + 1
        m   == IF mp < 10 THEN mp + 3 ELSE mp - 9
        y   == yoe + era * 400 + (IF m <= 2 THEN 1 ELSE 0)
    IN  [year |-> y, month |-> m, day |-> d]

\* The fraction of a second as chrono prints it: nothing for 0, else 3, 6
\* or 9 digits, the fewest that are exact.
FormatNanos(ns) ==
    IF ns = 0 THEN <<>>
    ELSE IF ns % 1000000 = 0 THEN <<".">> \o Pad(ns \div 1000000, 3)
    ELSE IF ns % 1000 = 0 THEN <<".">> \o Pad(ns \div 1000, 6)
    ELSE <<".">> \o Pad(ns, 9)

FormatOffset(off) ==
    LET a == IF off < 0 THEN -off ELSE off
    IN  <<IF off < 0 THEN "-" ELSE "+">> \o Pad(a \div 3600, 2) \o <<":">>
            \o Pad((a % 3600) \div 60, 2)

\* The RFC 3339 text of the instant secs + nsecs (a valid DateTime<Utc>, of
\* a year in 0..9999) in the local time zone.
ToRfc3339(secs, nsecs) ==
    LET local == secs + LocalOffsetSecs
        date  == CivilFromDays(local \div 86400)
        sod   == local % 86400
    IN  Pad(date.year, 4) \o <<"-">> \o Pad(date.month, 2) \o <<"-">>
            \o Pad(date.day, 2) \o <<"T">> \o Pad(sod \div 3600, 2) \o <<":">>
            \o Pad((sod % 3600) \div 60, 2) \o <<":">> \o Pad(sod % 60, 2)
            \o FormatNanos(U32Value(nsecs)) \o FormatOffset(LocalOffsetSecs)

(***************************************************************************)
(* Message::extract_source_with_tags (lib.rs 113-133)                      *)
(***************************************************************************)

\* enum SourceWithTags
Core(tags) == [variant |-> "Core", tags |-> tags, logger_error |-> <<>>]

Conference(tags) == [variant |-> "Conference", tags |-> tags, logger_error |-> <<>>]

Unknown(err) == [variant |-> "Unknown", tags |-> <<>>, logger_error |-> err]

FAILED_TO_GET_CONFERENCE_TAGS == <<"F", "a", "i", "l", "e", "d", " ", "t", "o", " ", "g", "e", "t", " ", "c", "o", "n", "f", "e", "r", "e", "n", "c", "e", " ", "t", "a", "g", "s">>

FAILED_TO_GET_REST == <<"F", "a", "i", "l", "e", "d", " ", "t", "o", " ", "g", "e", "t", " ", "t", "h", "e", " ", "r", "e", "s", "t", " ", "o", "f", " ", "c", "o", "n", "f", "e", "r", "e", "n", "c", "e", " ", "m", "e", "s", "s", "a", "g", "e">>

\* format!("Failed to parse conference tags '{}': {}", tags, err)
FormatTagsError(tags) ==
    <<"F", "a", "i", "l", "e", "d", " ", "t", "o", " ", "p", "a", "r", "s", "e", " ", "c", "o", "n", "f", "e", "r", "e", "n", "c", "e", " ", "t", "a", "g", "s", " ", "'">> \o tags \o <<"'", ":", " ">> \o SERDE_ERROR

\* Result<(SourceWithTags, &str), String>: [ok, source_with_tags, rest, err].
ExtractSourceWithTags(line) ==
    LET captures == ConferenceCaptures(line)
        parsed   == FromStrConferenceTags(captures.group1.v)
        core     == ExtractCoreTags(line)
        Err(e)   == [ok |-> FALSE, source_with_tags |-> Unknown(e),
                     rest |-> <<>>, err |-> e]
    IN  IF captures.matched
        THEN IF ~captures.group1.some THEN Err(FAILED_TO_GET_CONFERENCE_TAGS)
             ELSE IF ~parsed.ok THEN Err(FormatTagsError(captures.group1.v))
             ELSE IF ~captures.group2.some THEN Err(FAILED_TO_GET_REST)
             ELSE [ok |-> TRUE, source_with_tags |-> Conference(parsed.tags),
                   rest |-> captures.group2.v, err |-> <<>>]
        ELSE IF ~core.ok THEN Err(core.err)
             ELSE [ok |-> TRUE, source_with_tags |-> Core(core.tags),
                   rest |-> core.rest, err |-> <<>>]

(***************************************************************************)
(* Message::to_json_message (lib.rs 74-92)                                 *)
(***************************************************************************)

\* A Message: [timestamp, line].  The result is [panic |-> TRUE] when
\* Message::timestamp panics, else the JsonMessage.
ToJsonMessage(message) ==
    LET t   == Timestamp(message.timestamp)
        lvl == ExtractLevel(message.line)
        ex  == ExtractSourceWithTags(lvl.rest)
    IN  IF t.panic
        THEN [panic |-> TRUE, ts |-> <<>>, level |-> "", source_with_tags |-> Unknown(<<>>),
              msg |-> <<>>]
        ELSE IF ex.ok
        THEN [panic |-> FALSE, ts |-> ToRfc3339(t.secs, t.nsecs), level |-> lvl.level,
              source_with_tags |-> ex.source_with_tags, msg |-> Trim(ex.rest)]
        ELSE [panic |-> FALSE, ts |-> ToRfc3339(t.secs, t.nsecs), level |-> lvl.level,
              source_with_tags |-> Unknown(ex.err), msg |-> Trim(lvl.rest)]

(***************************************************************************)
(* The derived Serialize of JsonMessage (lib.rs 25-58): the JSON object as *)
(* the sequence of its <<key, value>> members in the order written.  A     *)
(* value is [t, v]: t the JSON type, v its text.                           *)
(***************************************************************************)

JsonString(s) == [t |-> "string", v |-> s]

JsonNumber(n) == [t |-> "number", v |-> n]

JsonNull == [t |-> "null", v |-> <<>>]

\* A field without skip_serializing_if: None is written as null.  C9 must
\* tell it from SkipIfNone.
NullIfNone(key, opt, value) == <<<<key, IF opt.some THEN value ELSE JsonNull>>>>

\* A field with #[serde(skip_serializing_if = "Option::is_none")].
SkipIfNone(key, opt, value) == IF opt.some THEN <<<<key, value>>>> ELSE <<>>

\* The level names, as text.
LevelText(level) ==
    CASE level = "ERRO" -> <<"E", "R", "R", "O">>
      [] level = "WARN" -> <<"W", "A", "R", "N">>
      [] level = "INFO" -> <<"I", "N", "F", "O">>

SerializeCoreTags(tags) ==
    SkipIfNone("handle_id", tags.handle_id, JsonNumber(tags.handle_id.v))

SerializeConferenceTags(tags) ==
    SkipIfNone("handle_id", tags.handle_id, JsonNumber(tags.handle_id.v))
        \o SkipIfNone("rtc_id", tags.rtc_id, JsonString(tags.rtc_id.v))
        \o SkipIfNone("agent_id", tags.agent_id, JsonString(tags.agent_id.v))
        \o SkipIfNone("transaction", tags.transaction, JsonString(tags.transaction.v))

\* #[serde(tag = "source", rename_all = "lowercase")]
SerializeSourceWithTags(swt) ==
    CASE swt.variant = "Core" ->
            <<<<"source", JsonString(<<"c", "o", "r", "e">>)>>>> \o SerializeCoreTags(swt.tags)
      [] swt.variant = "Conference" ->
            <<<<"source", JsonString(<<"c", "o", "n", "f", "e", "r", "e", "n", "c", "e">>)>>>>
                \o SerializeConferenceTags(swt.tags)
      [] swt.variant = "Unknown" ->
            <<<<"source", JsonString(<<"u", "n", "k", "n", "o", "w", "n">>)>>,
              <<"logger_error", JsonString(swt.logger_error)>>>>

\* serde_json::to_string(&json_message): the members of the object.
SerializeJsonMessage(jm) ==
    <<<<"ts", JsonString(jm.ts)>>, <<"level", JsonString(LevelText(jm.level))>>>>
        \o SerializeSourceWithTags(jm.source_with_tags)
        \o <<<<"msg", JsonString(jm.msg)>>>>

(***************************************************************************)
(* The plugin in its host (janus_logger.rs 42-170, lib.rs 159-188)         *)
(*                                                                         *)
(* Host threads call the extern "C" entry points.  Every init constructs a *)
(* JanusConferenceLogger (a channel and a worker thread) and then offers   *)
(* it to the LOGGER set-once slot.  Loggers are numbered in the order of   *)
(* their construction; 0 stands for the empty slot.                        *)
(***************************************************************************)

\* Host threads that call into the plugin.
NThreads == 2

\* incoming_logline and handle_request calls each host thread makes.
MaxCalls == 2

\* init calls the host makes in all.
MaxInits == 2

Threads == 1..NThreads

Loggers == 1..MaxInits

\* The timestamps and C strings the host passes to incoming_logline.
SysTimestamps == {0, -1}

SysLines == {<<"[", "7", "]", " ", "a">>, <<InvalidUtf8>>}

\* The requests the host passes to handle_request: a JSON object, and one
\* whose dumped text serde_json::from_str rejects (nested deeper than its
\* recursion limit).
Requests == {"object", "too_deep"}

VARIABLES
    slot,      \* LOGGER: 0 when empty, else the logger it holds
    nloggers,  \* loggers constructed so far
    tx,        \* tx[l]: the Sender of logger l is alive (the Box is not dropped)
    chan,      \* chan[l]: the messages queued in the channel of logger l, each
               \* with the id of its call and its number among the sends
               \* that succeeded
    worker,    \* worker[l]: "unborn", "running", "exited" or "panicked"
    out,       \* standard output: the records printed, each with the worker
               \* that printed it and the call its line came from
    pc,        \* pc[t]: "idle", or "set" inside init between new and set_if_none
    mine,      \* mine[t]: the logger the init of thread t constructed
    calls,     \* calls[t]: incoming_logline and handle_request calls of thread t
    last,      \* the call that returned last: its thread, what the call saw
               \* in LOGGER, what it returned and how it went
    handed,    \* the lines handed to incoming_logline so far: the id of each
               \* (thread and number of the call) and how the call went
    input,     \* the input of a function that is run on its own: the Message
               \* given to the event assembler, or the crate version that
               \* get_version is compiled with
    phase,     \* "new", "done" or "panicked": the progress of that function
    result     \* what it produced

vars == <<slot, nloggers, tx, chan, worker, out, pc, mine, calls, last, handed,
          input, phase, result>>

sysvars == <<slot, nloggers, tx, chan, worker, out, pc, mine, calls, last, handed>>

asmvars == <<input, phase, result>>

NoMessage == [timestamp |-> 0, line |-> <<>>]

NoCall == [op |-> "none", t |-> 0, saw |-> 0, val |-> "", how |-> ""]

SysInit ==
    /\ slot = 0
    /\ nloggers = 0
    /\ tx = [l \in Loggers |-> FALSE]
    /\ chan = [l \in Loggers |-> <<>>]
    /\ worker = [l \in Loggers |-> "unborn"]
    /\ out = <<>>
    /\ pc = [t \in Threads |-> "idle"]
    /\ mine = [t \in Threads |-> 0]
    /\ calls = [t \in Threads |-> 0]
    /\ last = NoCall
    /\ handed = {}

Init ==
    /\ SysInit
    /\ input = NoMessage
    /\ phase = "done"
    /\ result = <<>>

\* A slot that takes whatever it is offered (an ordinary store instead of
\* set_if_none): C8 must tell it from SetIfNone.
SetAlways(cur, new) == new

\* A refused Box that is leaked instead of dropped: its Sender stays alive
\* and its worker never ends.  C3 must tell it from DropRefused.
LeakRefused(senders, kept, offered) == senders

\* AtomSetOnce::set_if_none: the value of the slot afterwards.
SetIfNone(cur, new) == IF cur = 0 THEN new ELSE cur

\* The Box set_if_none hands back when the slot is taken is dropped at the
\* end of the statement (janus_logger.rs 63), and with it the only Sender
\* of its channel: the Senders alive afterwards.
DropRefused(senders, kept, offered) ==
    IF kept = offered THEN senders ELSE [senders EXCEPT ![offered] = FALSE]

\* A get that hands out the first constructed logger while the slot is
\* empty.  C18 must tell it from LoggerGet.
LoggerGetOrFirst(cur) == IF cur = 0 THEN 1 ELSE cur

\* AtomSetOnce::get
LoggerGet(cur) == cur

\* JanusConferenceLogger::new, the first half of init (janus_logger.rs 62):
\* the channel is created and the worker thread spawned.
InitNew(t) ==
    /\ pc[t] = "idle"
    /\ nloggers < MaxInits
    /\ nloggers' = nloggers + 1
    /\ tx' = [tx EXCEPT ![nloggers + 1] = TRUE]
    /\ worker' = [worker EXCEPT ![nloggers + 1] = "running"]
    /\ mine' = [mine EXCEPT ![t] = nloggers + 1]
    /\ pc' = [pc EXCEPT ![t] = "set"]
    /\ UNCHANGED <<slot, chan, out, calls, last, handed, asmvars>>

\* LOGGER.set_if_none(Box::new(logger)) and the return of init
\* (janus_logger.rs 63-64): a Box the slot refuses is dropped, and with it
\* the only Sender of its channel.
InitSetIfNone(t) ==
    /\ pc[t] = "set"
    /\ slot' = SetIfNone(slot, mine[t])
    /\ tx' = DropRefused(tx, slot', mine[t])
    /\ pc' = [pc EXCEPT ![t] = "idle"]
    /\ mine' = [mine EXCEPT ![t] = 0]
    /\ last' = [op |-> "init", t |-> t, saw |-> slot, val |-> "0", how |-> ""]
    /\ UNCHANGED <<nloggers, chan, worker, out, calls, handed, asmvars>>

\* CStr::to_str: Result<&str, Utf8Error>.
CStrToStr(cline) ==
    IF \E i \in 1..Len(cline) : cline[i] = InvalidUtf8
    THEN [ok |-> FALSE, v |-> <<>>]
    ELSE [ok |-> TRUE, v |-> cline]

\* A channel of capacity 1 (crossbeam_channel::bounded(1)): a send waits
\* while a message is queued.  C6 must tell it from SendReady.
SendReadyBounded(queue) == Len(queue) < 1

\* crossbeam_channel::unbounded (lib.rs 166): a send never waits for room,
\* whatever the queue holds.
SendReady(queue) == TRUE

\* Sender::send is Ok while the Receiver lives.  The worker's closure owns
\* the Receiver, which is dropped when the thread ends.
SendOk(state) == state = "running"

\* The extern "C" incoming_logline (janus_logger.rs 119-133) down to
\* JanusConferenceLogger::incoming_logline (lib.rs 181-183), which discards
\* the Result of the send.
IncomingLogline(t, timestamp, cline) ==
    LET logger == LoggerGet(slot)
        line   == CStrToStr(cline)
        id     == <<t, calls[t] + 1>>
        seq    == Cardinality({ h \in handed : h.how = "sent" }) + 1
        how    == IF logger = 0 THEN "no_logger"
                  ELSE IF ~line.ok THEN "bad_utf8"
                  ELSE IF SendOk(worker[logger]) THEN "sent"
                  ELSE "send_failed"
    IN  /\ pc[t] = "idle"
        /\ calls[t] < MaxCalls
        /\ logger # 0 /\ line.ok => SendReady(chan[logger])
        /\ chan' = IF how = "sent"
                   THEN [chan EXCEPT ![logger] =
                            Append(@, [timestamp |-> timestamp, line |-> line.v, id |-> id,
                                       seq |-> seq])]
                   ELSE chan
        /\ handed' = handed \cup {[id |-> id, how |-> how]}
        /\ calls' = [calls EXCEPT ![t] = @ + 1]
        /\ last' = [op |-> "incoming_logline", t |-> t, saw |-> logger, val |-> "()",
                     how |-> how]
        /\ UNCHANGED <<slot, nloggers, tx, worker, out, pc, mine, asmvars>>

\* json!({"error": "not implemented"}), as the text json_loads is given.
NOT_IMPLEMENTED == "{\"error\":\"not implemented\"}"

\* std::ptr::null_mut()
NULL_MUT == "null_mut"

\* serde_json::from_str of the dumped request (janus_logger.rs 157-160).
RequestParses(request) == request # "too_deep"

\* JanusConferenceLogger::handle_request (lib.rs 185-187)
LoggerHandleRequest(request) == NOT_IMPLEMENTED

\* A handle_request that answers without looking at LOGGER or parsing the
\* request.  C7 must tell it from HandleRequestResponse.
HandleRequestUnguarded(logger, request) == LoggerHandleRequest(request)

\* The value the extern "C" handle_request returns (janus_logger.rs 135-170).
HandleRequestResponse(logger, request) ==
    IF logger = 0 THEN NULL_MUT
    ELSE IF ~RequestParses(request) THEN NULL_MUT
    ELSE LoggerHandleRequest(request)

HandleRequest(t, request) ==
    /\ pc[t] = "idle"
    /\ calls[t] < MaxCalls
    /\ calls' = [calls EXCEPT ![t] = @ + 1]
    /\ last' = [op |-> "handle_request", t |-> t, saw |-> LoggerGet(slot),
                 val |-> HandleRequestResponse(LoggerGet(slot), request),
                 how |-> request]
    /\ UNCHANGED <<slot, nloggers, tx, chan, worker, out, pc, mine, handed, asmvars>>

\* A channel that hands out its newest message first (a stack).  C15 must
\* tell it from Recv.
RecvNewest(queue) ==
    [message |-> queue[Len(queue)], rest |-> SubSeq(queue, 1, Len(queue) - 1)]

\* rx.recv() on a channel that holds messages (lib.rs 169): the oldest
\* message, and the queue it leaves.
Recv(queue) == [message |-> Head(queue), rest |-> Tail(queue)]

\* One turn of the worker loop (lib.rs 169-175): rx.recv() returns the
\* oldest message, which is assembled, serialised and printed.  A panic of
\* Message::timestamp unwinds the worker thread: the Receiver is dropped
\* and what is still queued is never received.
WorkerRecv(l) ==
    /\ worker[l] = "running"
    /\ chan[l] # <<>>
    /\ chan' = [chan EXCEPT ![l] = Recv(@).rest]
    /\ LET message == Recv(chan[l]).message
           jm      == ToJsonMessage([timestamp |-> message.timestamp, line |-> message.line])
       IN  IF jm.panic
           THEN /\ worker' = [worker EXCEPT ![l] = "panicked"]
                /\ out' = out
           ELSE /\ worker' = worker
                /\ out' = Append(out, [json |-> SerializeJsonMessage(jm), by |-> l,
                                       id |-> message.id, seq |-> message.seq])
    /\ UNCHANGED <<slot, nloggers, tx, pc, mine, calls, last, handed, asmvars>>

\* rx.recv() is Err once the channel is empty and every Sender is dropped:
\* the loop and the thread end (lib.rs 169, 176).
WorkerExit(l) ==
    /\ worker[l] = "running"
    /\ chan[l] = <<>>
    /\ ~tx[l]
    /\ worker' = [worker EXCEPT ![l] = "exited"]
    /\ UNCHANGED <<slot, nloggers, tx, chan, out, pc, mine, calls, last, handed, asmvars>>

Next ==
    \/ \E t \in Threads : InitNew(t)
    \/ \E t \in Threads : InitSetIfNone(t)
    \/ \E t \in Threads, timestamp \in SysTimestamps, cline \in SysLines :
          IncomingLogline(t, timestamp, cline)
    \/ \E t \in Threads, request \in Requests : HandleRequest(t, request)
    \/ \E l \in Loggers : WorkerRecv(l)
    \/ \E l \in Loggers : WorkerExit(l)

Spec == Init /\ [][Next]_vars

\* The operating system schedules every worker thread: a worker that can
\* take a turn of its loop eventually does.
\* WorkerRecv(l) can be taken, and changes chan, exactly when the worker
\* runs and its queue holds a message: this is ENABLED <<WorkerRecv(l)>>_vars.
WorkerRecvEnabled(l) == worker[l] = "running" /\ chan[l] # <<>>

\* Weak fairness of WorkerRecv(l), with its enabling condition written out.
WorkerRecvFair(l) == []<>(~WorkerRecvEnabled(l)) \/ []<><<WorkerRecv(l)>>_vars

FairSpec ==
    /\ Spec
    /\ \A l \in Loggers : WorkerRecvFair(l) /\ WF_vars(WorkerExit(l))

(***************************************************************************)
(* The event assembler on its own: Message::to_json_message and the        *)
(* serialisation applied to one Message, for every timestamp and line of   *)
(* the sets below.                                                         *)
(***************************************************************************)

AsmTimestamps == {0, 1, 1500000, -1, -1000000, -1000001, 2147483647}

LevelParts ==
    { <<>>,
      <<"[", "E", "R", "R", "]", " ">>,
      <<"[", "W", "A", "R", "N", "]", " ">>,
      <<"[", "E", "R", "R", "O", "R", "]", " ">>,
      <<"[", "E", "R", "R", "]">>,
      <<" ", "[", "E", "R", "R", "]", " ">> }

TagParts ==
    { <<>>,
      <<"[", "4", "2", "]", " ">>,
      <<"[", "4", "2", "]">>,
      <<"[", "0", "0", "7", "]", " ">>,
      <<"[", "0", "]", " ">>,
      <<"[", "1", "8", "4", "4", "6", "7", "4", "4", "0", "7", "3", "7", "0", "9", "5", "5", "1", "6", "1", "5", "]", " ">>,
      <<"[", "1", "8", "4", "4", "6", "7", "4", "4", "0", "7", "3", "7", "0", "9", "5", "5", "1", "6", "1", "6", "]", " ">>,
      <<"[", ArabicIndicThree, "]", " ">>,
      <<"[", "4", "x", "]", " ">>,
      <<"[", "C", "O", "N", "F", "E", "R", "E", "N", "C", "E", " ", "{", "\"", "r", "t", "c", "_", "i", "d", "\"", ":", "\"", "a", "b", "c", "\"", "}", "]", " ">>,
      <<"[", "C", "O", "N", "F", "E", "R", "E", "N", "C", "E", " ", "{", "\"", "h", "a", "n", "d", "l", "e", "_", "i", "d", "\"", ":", "5", ",", "\"", "r", "t", "c", "_", "i", "d", "\"", ":", "n", "u", "l", "l", ",", "\"", "a", "g", "e", "n", "t", "_", "i", "d", "\"", ":", "\"", "a", "\"", ",", "\"", "t", "r", "a", "n", "s", "a", "c", "t", "i", "o", "n", "\"", ":", "\"", "t", "\"", ",", "\"", "x", "\"", ":", "{", "\"", "y", "\"", ":", "[", "1", "]", "}", "}", "]", " ">>,
      <<"[", "C", "O", "N", "F", "E", "R", "E", "N", "C", "E", " ", "{", "}", "]", " ">>,
      <<"[", "C", "O", "N", "F", "E", "R", "E", "N", "C", "E", " ", "{", "b", "a", "d", "}", "]", " ">>,
      <<"[", "C", "O", "N", "F", "E", "R", "E", "N", "C", "E", " ", "{", "\"", "h", "a", "n", "d", "l", "e", "_", "i", "d", "\"", ":", "\"", "7", "\"", "}", "]", " ">>,
      <<"[", "C", "O", "N", "F", "E", "R", "E", "N", "C", "E", " ">> }

RestParts == {<<>>, <<"c", "o", "n", "n", "e", "c", "t", "i", "n", "g">>, <<" ", "x", " ", "\t">>, <<"a", "}", "]", " ", "b">>, <<"a", "\n", "b">>}

AsmLines == { l \o g \o r : l \in LevelParts, g \in TagParts, r \in RestParts }

AsmInit ==
    /\ SysInit
    /\ input \in [timestamp : AsmTimestamps, line : AsmLines]
    /\ phase = "new"
    /\ result = <<>>

\* to_json_message and serde_json::to_string, as the worker applies them
\* to a received message (lib.rs 170-172).
Assemble ==
    /\ phase = "new"
    /\ LET jm == ToJsonMessage(input)
       IN  IF jm.panic
           THEN phase' = "panicked" /\ result' = <<>>
           ELSE phase' = "done" /\ result' = [jm |-> jm, json |-> SerializeJsonMessage(jm)]
    /\ UNCHANGED <<input, sysvars>>

AsmNext == Assemble

AsmSpec == AsmInit /\ [][AsmNext]_vars

(***************************************************************************)
(* Properties of the event assembler (checked under AsmSpec)               *)
(***************************************************************************)

EPOCH_TEXT == <<"1", "9", "7", "0", "-", "0", "1", "-", "0", "1", "T", "0", "0", ":", "0", "0", ":", "0", "0", "+", "0", "0", ":", "0", "0">>

\* C4: event assembly is total: for every timestamp (zero and negative
\* ones too) and every line, to_json_message completes without panicking,
\* the sub-second nanoseconds it computes lie in [0, 10^9)
\* (10^9 = 15258 * 65536 + 51712), and t = 0 maps to the Unix epoch.
C4_AssemblyTotal ==
    phase # "new" =>
        /\ phase = "done"
        /\ U32Less(Timestamp(input.timestamp).nsecs, [hi |-> 15258, lo |-> 51712])
        /\ input.timestamp = 0 => result.jm.ts = EPOCH_TEXT

\* The keys of a serialised record.
JsonKeys(json) == { json[i][1] : i \in DOMAIN json }

\* The value of key k in a serialised record that has it.
JsonGet(json, k) == json[CHOOSE i \in DOMAIN json : json[i][1] = k][2]

TagKeys == {"handle_id", "rtc_id", "agent_id", "transaction"}

\* The optional tags the assembled event holds a value for.
PresentTags(swt) ==
    CASE swt.variant = "Core" -> { k \in {"handle_id"} : swt.tags[k].some }
      [] swt.variant = "Conference" -> { k \in TagKeys : swt.tags[k].some }
      [] swt.variant = "Unknown" -> {}

\* C9: every emitted record has exactly the keys ts, level, source and msg
\* plus the present fields of its variant; level is ERRO, WARN or INFO,
\* source is core, conference or unknown; an optional tag is a key exactly
\* when its value is present, and no key has a null value.
C9_RecordKeys ==
    phase = "done" =>
        LET json == result.json
            swt  == result.jm.source_with_tags
        IN  /\ \A i, j \in DOMAIN json : json[i][1] = json[j][1] => i = j
            /\ JsonKeys(json) = {"ts", "level", "source", "msg"} \cup PresentTags(swt)
                   \cup (IF swt.variant = "Unknown" THEN {"logger_error"} ELSE {})
            /\ JsonGet(json, "level").v \in {<<"E", "R", "R", "O">>, <<"W", "A", "R", "N">>, <<"I", "N", "F", "O">>}
            /\ JsonGet(json, "source").v \in {<<"c", "o", "r", "e">>, <<"c", "o", "n", "f", "e", "r", "e", "n", "c", "e">>, <<"u", "n", "k", "n", "o", "w", "n">>}
            /\ \A k \in TagKeys : k \in JsonKeys(json) <=> k \in PresentTags(swt)
            /\ \A i \in DOMAIN json : json[i][2].t # "null"

\* C9 witness: a conference record was emitted with some of its tags
\* present and one absent.
C9_Witness ==
    /\ phase = "done"
    /\ result.jm.source_with_tags.variant = "Conference"
    /\ {"handle_id", "agent_id", "transaction"} \subseteq JsonKeys(result.json)
    /\ "rtc_id" \notin JsonKeys(result.json)
    /\ ~result.jm.source_with_tags.tags.rtc_id.some

\* The remainder the tag grammar is given: the line after extract_level.
Remainder == ExtractLevel(input.line).rest

\* The remainder is '[' digits '] ' text with n ASCII digits that parse as
\* a usize.
BracketedForm(r, n) ==
    /\ n >= 1
    /\ n + 3 <= Len(r)
    /\ r[1] = "["
    /\ \A i \in 2..(n + 1) : r[i] \in AsciiDigit
    /\ r[n + 2] = "]"
    /\ r[n + 3] = " "
    /\ FitsUsize(StripZeros(SubSeq(r, 2, n + 1)))

\* The remainder begins with a bracketed run of decimal digits.
BeginsWithBracketedDigits(r) ==
    \E n \in 1..Len(r) :
        /\ r[1] = "["
        /\ \A i \in 2..(n + 1) : CharAt(r, i) \in RegexDigit
        /\ CharAt(r, n + 2) = "]"

\* The second half of C10: a remainder without a bracketed integer, which
\* the conference grammar does not match, is Core without handle_id, its
\* message the trimmed remainder.
NoBracketIsPlainCore(r) ==
    ~BeginsWithBracketedDigits(r) /\ ~ConferenceCaptures(r).matched =>
        /\ result.jm.source_with_tags = Core([handle_id |-> None])
        /\ result.jm.msg = Trim(r)

\* C10 as claimed: for every remainder '[' digits '] ' text whose digits
\* parse as the unsigned integer n, the event is Core with handle_id = n
\* and its message is the trimmed text after the bracketed prefix; a
\* remainder without bracketed integer is Core without handle_id.
C10_CoreGrammar ==
    phase = "done" =>
        /\ \A n \in 1..Len(Remainder) :
              BracketedForm(Remainder, n) =>
                  /\ result.jm.source_with_tags =
                         Core([handle_id |-> Some(StripZeros(SubSeq(Remainder, 2, n + 1)))])
                  /\ result.jm.msg = Trim(Drop(Remainder, n + 3))
        /\ NoBracketIsPlainCore(Remainder)

\* C10 amended: the bracketed prefix is removed only when the digits are
\* the canonical numeral of n (no leading zero); with a leading zero the
\* event is still Core with handle_id = n, but its message is the whole
\* trimmed remainder, bracketed prefix included.
C10_CoreGrammarAmended ==
    phase = "done" =>
        /\ \A n \in 1..Len(Remainder) :
              BracketedForm(Remainder, n) =>
                  LET digits == SubSeq(Remainder, 2, n + 1)
                  IN  /\ result.jm.source_with_tags =
                             Core([handle_id |-> Some(StripZeros(digits))])
                      /\ result.jm.msg = IF digits = StripZeros(digits)
                                         THEN Trim(Drop(Remainder, n + 3))
                                         ELSE Trim(Remainder)
        /\ NoBracketIsPlainCore(Remainder)

\* C10 witness: a remainder "[007] ..." was assembled: handle_id is 7 and
\* the message still starts with the bracketed prefix.
C10_Witness ==
    /\ phase = "done"
    /\ BracketedForm(Remainder, 3)
    /\ SubSeq(Remainder, 2, 4) = <<"0", "0", "7">>
    /\ result.jm.source_with_tags = Core([handle_id |-> Some(<<"7">>)])
    /\ StartsWith(result.jm.msg, <<"[", "0", "0", "7", "]", " ">>)

(***************************************************************************)
(* Properties of the plugin in its host (checked under Spec, C5 under      *)
(* FairSpec)                                                               *)
(***************************************************************************)

\* The ids of the lines whose send returned Ok.
Sent == { h.id : h \in { x \in handed : x.how = "sent" } }

\* The ids of the lines handed to the installed logger as valid text.
Offered == { h.id : h \in { x \in handed : x.how \in {"sent", "send_failed"} } }

\* The positions of standard output whose record came from line id.
EmittedAt(id) == { i \in DOMAIN out : out[i].id = id }

\* No worker has a message left that it can still receive.
Quiet == \A l \in Loggers : ~(worker[l] = "running" /\ chan[l] # <<>>)

\* C1, for the lines the channel accepted: once the workers have nothing
\* left to receive, every line whose send succeeded has produced exactly
\* one record (none dropped, none emitted twice).  The claim says so of
\* every line handed to incoming_logline, these among them.
C1_ExactlyOneEvent ==
    Quiet => \A id \in Sent : Cardinality(EmittedAt(id)) = 1

\* C2: when each of the NThreads callers has made its MaxCalls
\* incoming_logline calls on the installed logger and the worker has
\* drained the queue, NThreads * MaxCalls records are printed, those of
\* each caller in the order of its calls.
C2_AllEmittedInCallerOrder ==
    (Quiet /\ Offered = Threads \X (1..MaxCalls)) =>
        /\ Len(out) = NThreads * MaxCalls
        /\ \A i, j \in DOMAIN out :
              (i < j /\ out[i].id[1] = out[j].id[1]) => out[i].id[2] < out[j].id[2]

\* C3 as claimed: under any number of init calls at most one Emission
\* Worker is ever started.
C3_OneWorkerStarted == Cardinality({ l \in Loggers : worker[l] # "unborn" }) <= 1

\* C3 amended: every init starts a worker, but only the worker of the
\* logger the set-once slot holds is ever given a line or prints a record;
\* any other logger is dropped by the init that constructed it, which
\* closes its (empty) channel.
C3_OneWorkerServes ==
    /\ \A l \in Loggers : worker[l] # "unborn" <=> l <= nloggers
    /\ \A l \in 1..nloggers :
          l # slot =>
              /\ chan[l] = <<>>
              /\ (\A t \in Threads : mine[t] # l) => ~tx[l]
    /\ \A i \in DOMAIN out : out[i].by = slot

\* C3 witness: two init calls have returned, two workers were started, the
\* one of the refused logger has ended and the other has printed a record.
C3_Witness ==
    /\ nloggers = 2
    /\ \A t \in Threads : pc[t] = "idle"
    /\ slot # 0
    /\ \E l \in Loggers : l # slot /\ worker[l] = "exited"
    /\ worker[slot] = "running"
    /\ out # <<>>

\* Every possible id of a line.
Ids == Threads \X (1..MaxCalls)

InQueue(id) == \E l \in Loggers : \E i \in DOMAIN chan[l] : chan[l][i].id = id

\* C5: under fair scheduling of the worker, a line that is enqueued on the
\* channel is eventually received by the worker (it leaves the queue),
\* whatever was enqueued before it.
C5_EnqueuedEventuallyProcessed ==
    \A id \in Ids : InQueue(id) ~> ~InQueue(id)

\* C6: incoming_logline can always be called and returns at once, whatever
\* the queue holds and whether or not the worker still runs; it returns
\* nothing (no error), and a send that fails changes neither the slot, the
\* Senders, the queues, the workers nor the output.
C6_IngestNeverBlocks ==
    [][/\ \A t \in Threads :
             (pc[t] = "idle" /\ calls[t] < MaxCalls) =>
                 \A timestamp \in SysTimestamps, cline \in SysLines :
                     ENABLED IncomingLogline(t, timestamp, cline)
       /\ \A t \in Threads, timestamp \in SysTimestamps, cline \in SysLines :
             IncomingLogline(t, timestamp, cline) =>
                 /\ last'.val = "()"
                 /\ last'.how = "send_failed" =>
                        UNCHANGED <<slot, tx, chan, worker, out>>]_vars

\* C6 witness: a line was handed in after the worker had ended; the send
\* failed and the call returned all the same.
C6_Witness ==
    /\ last.op = "incoming_logline"
    /\ last.how = "send_failed"
    /\ last.val = "()"
    /\ worker[slot] = "panicked"

\* C7 as claimed: in every state handle_request returns the fixed object.
C7_AlwaysNotImplemented == last.op = "handle_request" => last.val = NOT_IMPLEMENTED

\* C7 amended: handle_request returns {"error": "not implemented"} when a
\* logger is installed and the request's text parses, and a null pointer
\* otherwise (before init, in particular); in either case it changes
\* neither the slot, the queues, the workers nor the output.
C7_HandleRequestAmended ==
    [][\A t \in Threads, request \in Requests :
          HandleRequest(t, request) =>
              /\ last'.val = IF slot # 0 /\ request = "object"
                             THEN NOT_IMPLEMENTED
                             ELSE NULL_MUT
              /\ UNCHANGED <<slot, tx, chan, worker, out>>]_vars

\* C7 witness: handle_request was called with lines queued on the
\* installed logger and returned the fixed object.
C7_Witness ==
    /\ last.op = "handle_request"
    /\ last.val = NOT_IMPLEMENTED
    /\ slot # 0
    /\ chan[slot] # <<>>

\* C8: once the slot holds a logger it never changes, and every later
\* incoming_logline and handle_request sees that logger.
C8_SlotSetOnce ==
    [][/\ slot # 0 => slot' = slot
       /\ (slot # 0 /\ calls' # calls) => last'.saw = slot]_vars

\* C8 witness: a second init has returned after the first installed its
\* logger, and a later incoming_logline still reached the first logger.
C8_Witness ==
    /\ nloggers = 2
    /\ \A t \in Threads : pc[t] = "idle"
    /\ slot = 1
    /\ last.op = "incoming_logline"
    /\ last.saw = 1
    /\ last.how = "sent"

(***************************************************************************)
(* The tag grammars and the failure policy (checked under AsmSpec)         *)
(***************************************************************************)

\* The position after the JSON object that follows the literal
\* "[CONFERENCE " at the start of r, 0 when there is none.
ConferenceObjectEnd(r) ==
    IF StartsWith(r, CONFERENCE_OPEN) THEN SkipValue(r, Len(CONFERENCE_OPEN)) ELSE 0

\* r is "[CONFERENCE " object "] " rest, for some JSON object and any rest.
ConferenceForm(r) ==
    /\ ConferenceObjectEnd(r) # 0
    /\ MatchesAt(r, ConferenceObjectEnd(r), <<"]", " ">>)

\* The JSON object of such a remainder.
ConferenceObject(r) == SubSeq(r, Len(CONFERENCE_OPEN), ConferenceObjectEnd(r) - 1)

\* The rest of such a remainder after the closing "] ".
ConferenceRest(r) == Drop(r, ConferenceObjectEnd(r) + 1)

\* C11: every remainder "[CONFERENCE " object "] " rest is handled by the
\* conference grammar, never by the core fallback: it is classified
\* conference with the tags of the object when the object parses as tags
\* and unknown when it does not, and the message of a conference event is
\* the (trimmed) rest after "] ", whatever the rest is.
C11_ConferenceSelection ==
    (phase = "done" /\ ConferenceForm(Remainder)) =>
        LET parsed == FromStrConferenceTags(ConferenceObject(Remainder))
        IN  IF parsed.ok
            THEN /\ result.jm.source_with_tags = Conference(parsed.tags)
                 /\ result.jm.msg = Trim(ConferenceRest(Remainder))
            ELSE result.jm.source_with_tags.variant = "Unknown"

\* The remainder has the shape of a conference line, but no text between
\* the opening brace and a "}] " parses as a tag object.
MalformedConferenceTags(r) ==
    /\ StartsWith(r, CONFERENCE_OPEN)
    /\ \E j \in 1..Len(r) : MatchesAt(r, j, CONFERENCE_CLOSE)
    /\ \A j \in 1..Len(r) :
          MatchesAt(r, j, CONFERENCE_CLOSE) =>
              ~FromStrConferenceTags(SubSeq(r, Len(CONFERENCE_OPEN), j)).ok

\* The remainder begins with a bracketed run of digits that does not parse
\* as a usize.
UnparsableHandleId(r) ==
    /\ BeginsWithBracketedDigits(r)
    /\ ~ParseUsize(SubSeq(r, 2, DigitRun(r, 2) + 1)).ok

\* Tag extraction fails on the remainder.
ExtractionFails(r) == MalformedConferenceTags(r) \/ UnparsableHandleId(r)

\* What C12 says of an event that is classified Unknown.
UnknownEvent ==
    /\ result.jm.source_with_tags.logger_error # <<>>
    /\ "logger_error" \in JsonKeys(result.json)
    /\ result.jm.level = ExtractLevel(input.line).level
    /\ result.jm.msg = Trim(Remainder)

\* C12: when tag extraction fails (the tag object is malformed, or the
\* bracketed digits do not parse as an unsigned integer) the event is
\* Unknown with a non-empty logger_error, the extracted level and the
\* trimmed remainder as message; Unknown is produced in no other case.
C12_StrictFailurePolicy ==
    phase = "done" =>
        /\ result.jm.source_with_tags.variant = "Unknown" <=> ExtractionFails(Remainder)
        /\ result.jm.source_with_tags.variant = "Unknown" => UnknownEvent

\* C13: the level is ERRO exactly when the line starts with "[ERR] ", WARN
\* exactly when it does not but starts with "[WARN] ", and INFO otherwise;
\* the matched prefix and only it is stripped, and for INFO the remainder
\* is the entire line ("[ERROR] x" and other markers are INFO).
C13_LevelExtraction ==
    phase = "done" =>
        LET line == input.line
            err  == StartsWith(line, <<"[", "E", "R", "R", "]", " ">>)
            warn == StartsWith(line, <<"[", "W", "A", "R", "N", "]", " ">>)
        IN  /\ result.jm.level = ExtractLevel(line).level
            /\ JsonGet(result.json, "level").v = LevelText(result.jm.level)
            /\ result.jm.level = "ERRO" <=> err
            /\ result.jm.level = "WARN" <=> (~err /\ warn)
            /\ result.jm.level = "INFO" <=> (~err /\ ~warn)
            /\ err => Remainder = Drop(line, 6)
            /\ (~err /\ warn) => Remainder = Drop(line, 7)
            /\ (~err /\ ~warn) => Remainder = line

\* C13 witness: a line that starts with "[ERROR] " was assembled as INFO,
\* with the marker still in its message.
C13_Witness ==
    /\ phase = "done"
    /\ StartsWith(input.line, <<"[", "E", "R", "R", "O", "R", "]", " ">>)
    /\ result.jm.level = "INFO"
    /\ Remainder = input.line
    /\ StartsWith(result.jm.msg, <<"[", "E", "R", "R", "O", "R", "]">>)

\* The remainder to_json_message takes the message from: the rest the
\* grammar selected, or the whole remainder when extraction failed.
SelectedRest ==
    IF ExtractSourceWithTags(Remainder).ok
    THEN ExtractSourceWithTags(Remainder).rest
    ELSE Remainder

\* C16: whichever path is taken, the msg of the event has no leading or
\* trailing whitespace: it is the trim of the remainder the grammar
\* selected.
C16_MessageTrimmed ==
    phase = "done" =>
        LET msg == result.jm.msg
        IN  /\ msg # <<>> => (msg[1] \notin WhiteSpace /\ msg[Len(msg)] \notin WhiteSpace)
            /\ \E i \in 0..Len(SelectedRest), j \in 0..Len(SelectedRest) :
                  /\ i + j + Len(msg) = Len(SelectedRest)
                  /\ SubSeq(SelectedRest, i + 1, i + Len(msg)) = msg
                  /\ \A k \in 1..i : SelectedRest[k] \in WhiteSpace
                  /\ \A k \in (Len(SelectedRest) - j + 1)..Len(SelectedRest) :
                        SelectedRest[k] \in WhiteSpace
            /\ JsonGet(result.json, "msg").v = msg

\* C16 witness: on the failure path an Unknown event was assembled from a
\* remainder that ends with whitespace, which its message has lost.
C16_Witness ==
    /\ phase = "done"
    /\ result.jm.source_with_tags.variant = "Unknown"
    /\ SelectedRest # <<>>
    /\ SelectedRest[Len(SelectedRest)] \in WhiteSpace
    /\ result.jm.msg # <<>>
    /\ Len(result.jm.msg) < Len(SelectedRest)

\* The worker thread of logger l has ended.
Ended(l) == worker[l] \notin {"unborn", "running"}

\* C14: the worker loop never ends because of a record it received: a
\* worker thread that has ended is one whose channel is closed, every
\* Sender of it dropped.
C14_WorkerEndsOnlyWhenClosed == \A l \in Loggers : Ended(l) => ~tx[l]

\* C15: the records on standard output are in the order in which their
\* lines were enqueued: no record of a line enqueued later precedes the
\* record of a line enqueued earlier.
C15_EmittedInEnqueueOrder ==
    \A i, j \in DOMAIN out : i < j => out[i].seq < out[j].seq

\* C15 witness: two callers' lines were printed, the line of the second
\* caller first, as it was enqueued first.
C15_Witness ==
    /\ Len(out) >= 2
    /\ out[1].id[1] = 2
    /\ out[2].id[1] = 1
    /\ out[1].seq = 1
    /\ out[2].seq = 2

\* Logger l was constructed by an init that has returned, and the slot
\* holds another logger.
Refused(l) ==
    /\ l <= nloggers
    /\ slot # l
    /\ \A t \in Threads : mine[t] # l

\* C17: a logger that loses the set-once race is dropped at the end of its
\* init, which closes its channel (no Sender, nothing queued); its worker
\* never prints a record and eventually ends, so when every init has
\* returned and the workers have noticed, at most the worker of the
\* installed logger is alive.
C17_RefusedWorkerEnds ==
    /\ [](\A l \in Loggers :
             Refused(l) =>
                 /\ ~tx[l]
                 /\ chan[l] = <<>>
                 /\ \A i \in DOMAIN out : out[i].by # l)
    /\ \A l \in Loggers : Refused(l) ~> (worker[l] = "exited")
    /\ \A l \in Loggers : [](worker[l] = "exited" => l # slot)

\* C17 witness: every init has returned, the worker of the refused logger
\* has ended and only the worker of the installed logger is alive.
C17_Witness ==
    /\ nloggers = MaxInits
    /\ \A t \in Threads : pc[t] = "idle"
    /\ \E l \in Loggers : Refused(l) /\ worker[l] = "exited"
    /\ { l \in Loggers : worker[l] = "running" } = {slot}

\* C18: an incoming_logline call made while the slot is empty is a no-op:
\* it leaves the slot, the Senders, every queue, every worker and the
\* output unchanged, and its line is never enqueued nor emitted later.
C18_NoLoggerNoOp ==
    /\ [][\A t \in Threads, timestamp \in SysTimestamps, cline \in SysLines :
             (slot = 0 /\ IncomingLogline(t, timestamp, cline)) =>
                 /\ UNCHANGED <<slot, nloggers, tx, chan, worker, out>>
                 /\ last'.saw = 0
                 /\ [id |-> <<t, calls'[t]>>, how |-> "no_logger"] \in handed']_vars
    /\ [](\A h \in handed :
             h.how = "no_logger" => (~InQueue(h.id) /\ EmittedAt(h.id) = {}))

\* C18 witness: a line was handed in before init; a logger was installed
\* afterwards and a later line was printed, the early one was not.
C18_Witness ==
    /\ \E h \in handed : h.how = "no_logger" /\ h.id[2] = 1
    /\ slot # 0
    /\ out # <<>>
    /\ \A t \in Threads : calls[t] = MaxCalls

(***************************************************************************)
(* get_version (janus_logger.rs 73-87) on its own, for every crate version *)
(* of the set below.                                                       *)
(***************************************************************************)

\* The largest major, minor and patch number of the modelled versions.
MaxVersionPart == 4

\* The environment cargo compiles the crate with: the parts of its version.
CargoVersions ==
    [CARGO_PKG_VERSION_MAJOR : 0..MaxVersionPart,
     CARGO_PKG_VERSION_MINOR : 0..MaxVersionPart,
     CARGO_PKG_VERSION_PATCH : 0..MaxVersionPart]

\* get_version: the three numbers it parses from the environment, and the
\* c_int it returns (the modelled parts are far from an i32 overflow).
GetVersion(env) ==
    LET major == env.CARGO_PKG_VERSION_MAJOR
        minor == env.CARGO_PKG_VERSION_MINOR
        patch == env.CARGO_PKG_VERSION_MAJOR
    IN  major * 10000 + minor * 100 + patch

VerInit ==
    /\ SysInit
    /\ input \in CargoVersions
    /\ phase = "new"
    /\ result = <<>>

\* The host calls get_version.
GetVersionCall ==
    /\ phase = "new"
    /\ phase' = "done"
    /\ result' = GetVersion(input)
    /\ UNCHANGED <<input, sysvars>>

VerNext == GetVersionCall

VerSpec == VerInit /\ [][VerNext]_vars

\* C19: get_version returns major * 10000 + minor * 100 + patch of the
\* crate version major.minor.patch, so a version that differs from it only
\* in the patch number yields another result.
C19_GetVersion ==
    phase = "done" =>
        /\ result = input.CARGO_PKG_VERSION_MAJOR * 10000
                        + input.CARGO_PKG_VERSION_MINOR * 100
                        + input.CARGO_PKG_VERSION_PATCH
        /\ \A p \in 0..MaxVersionPart :
              p # input.CARGO_PKG_VERSION_PATCH =>
                  GetVersion([input EXCEPT !.CARGO_PKG_VERSION_PATCH = p]) # result

=============================================================================
